---- MODULE Spec2Model ----
(***************************************************************************)
(* Model of image_resize.py: the row pipeline of main() and the helpers    *)
(* to_public_id, cld_signature, cld_transform_url, cell_str and            *)
(* upload_to_cloudinary.                                                   *)
(*                                                                         *)
(* A Python str is a sequence of characters; a character is a one-letter   *)
(* string, and a non-ASCII character is written by its code point          *)
(* ("U+00E9").  The empty str is << >>.                                     *)
(***************************************************************************)
EXTENDS Integers, Sequences, FiniteSets, TLC

VARIABLES
    \* ---- the environment and main()'s locals
    cloud_name, cloud_api_key, cloud_api_secret,   \* os.getenv results
    pc,            \* position of main()
    df,            \* the loaded table: [columns, rows]
    source_cols, out_rows, attempted, processed,
    idx,           \* number of rows iterrows() has yielded so far
    sku, img_url, public_id, referer,
    \* ---- what the run did to the outside world
    sleeps,        \* number of time.sleep(THROTTLE_SEC) calls
    fetchLog,      \* per row: the responses of the GETs issued for it
    uploadLog,     \* per row: the responses of the POSTs issued for it
    visited,       \* row numbers in the order the loop body started on them
    outcome,       \* per row: "Pending", "Skipped", "Failed", "Succeeded"
    outIdx,        \* row numbers of the rows appended to out_rows, in order
    errors,        \* the "ERROR ..." lines printed, each by what it reports
    dest,          \* DEST_XLSX: [written, columns, rows]
    console,       \* the closing message: [kind, attempted, processed]
    \* ---- one call of a helper (the helper specifications)
    call, ret, returned

mainVars == <<cloud_name, cloud_api_key, cloud_api_secret, pc, df, source_cols,
              out_rows, attempted, processed, idx, sku, img_url, public_id,
              referer, sleeps, fetchLog, uploadLog, visited, outcome, outIdx,
              errors, dest, console>>
fnVars == <<call, ret, returned>>
vars == <<mainVars, fnVars>>

\* ------------------------------------------------------------------ bounds
MaxLen == 3        \* longest text given to to_public_id
MaxPieces == 3     \* a URL is a concatenation of at most MaxPieces pieces
MaxParams == 2     \* most parameters in a map given to cld_signature
MaxRows == 2       \* most rows in the loaded table

\* ----------------------------------------------------------------- strings
RECURSIVE Concat(_)
Concat(ss) == IF ss = << >> THEN << >> ELSE Head(ss) \o Concat(Tail(ss))

RECURSIVE SeqsUpTo(_, _)
\* every sequence over S of length at most n
SeqsUpTo(S, n) ==
    IF n = 0 THEN {<< >>}
    ELSE LET shorter == SeqsUpTo(S, n - 1)
         IN  shorter \cup {Append(s, c) : s \in shorter, c \in S}

Range(s) == {s[i] : i \in 1..Len(s)}

\* -------------------------------------------------------------- SETTINGS
CLD_DELIVERY_TRANSFORM ==
    <<"c", "_", "p", "a", "d", ",", "w", "_", "8", "0", "0", ",", "h", "_",
      "8", "0", "0", ",", "b", "_", "w", "h", "i", "t", "e", ",", "f", "_",
      "a", "u", "t", "o", ",", "q", "_", "a", "u", "t", "o", ",", "d", "p",
      "r", "_", "a", "u", "t", "o">>
USE_IMAGE_ALT_TEXT_AS_PUBLIC_ID == TRUE

\* ------------------------------------------------------------ to_public_id
\* The characters the sanitizer is exercised on: ASCII letter, digit,
\* underscore, hyphen, space, punctuation, a precomposed accented letter
\* (e-acute), the combining acute accent, and a non-ASCII letter (Cyrillic zhe).
SanChars == {"a", "7", "_", "-", " ", "!", "U+00E9", "U+0301", "U+0436"}
AsciiIdChars == {"a", "e", "7", "_", "-"}     \* members of [A-Za-z0-9_-]
AsciiChars == {"a", "e", "7", "_", "-", " ", "!"}

\* unicodedata.normalize("NFKD", .) on one character
NFKDChar(c) == IF c = "U+00E9" THEN <<"e", "U+0301">> ELSE <<c>>

RECURSIVE NFKD(_)
NFKD(s) == IF s = << >> THEN << >> ELSE NFKDChar(Head(s)) \o NFKD(Tail(s))

\* [\u0300-\u036f], the combining diacritical marks
IsCombining(c) == c = "U+0301"

\* \w of a str pattern: Unicode alphanumerics and the underscore
IsWord(c) == c \in {"a", "e", "7", "_", "U+0436"}

\* [^\w\-]
IsNonWord(c) == ~IsWord(c) /\ c # "-"

RECURSIVE StripAccents(_)
\* re.sub(r"[\u0300-\u036f]", "", s)
StripAccents(s) ==
    IF s = << >> THEN << >>
    ELSE IF IsCombining(Head(s)) THEN StripAccents(Tail(s))
    ELSE <<Head(s)>> \o StripAccents(Tail(s))

RECURSIVE SubNonWordRuns(_, _)
\* re.sub(r"[^\w\-]+", "_", s): every maximal run of such characters becomes
\* one underscore; inRun says the previous character was in the run
SubNonWordRuns(s, inRun) ==
    IF s = << >> THEN << >>
    ELSE IF IsNonWord(Head(s))
         THEN (IF inRun THEN << >> ELSE <<"_">>) \o SubNonWordRuns(Tail(s), TRUE)
         ELSE <<Head(s)>> \o SubNonWordRuns(Tail(s), FALSE)

RECURSIVE CollapseUnderscores(_, _)
\* re.sub(r"_+", "_", s)
CollapseUnderscores(s, inRun) ==
    IF s = << >> THEN << >>
    ELSE IF Head(s) = "_"
         THEN (IF inRun THEN << >> ELSE <<"_">>) \o CollapseUnderscores(Tail(s), TRUE)
         ELSE <<Head(s)>> \o CollapseUnderscores(Tail(s), FALSE)

RECURSIVE LStrip(_, _)
LStrip(s, C) ==
    IF s # << >> /\ Head(s) \in C THEN LStrip(Tail(s), C) ELSE s

RECURSIVE RStrip(_, _)
RStrip(s, C) ==
    IF s # << >> /\ s[Len(s)] \in C THEN RStrip(SubSeq(s, 1, Len(s) - 1), C) ELSE s

\* str.strip(chars)
Strip(s, C) == RStrip(LStrip(s, C), C)

\* the sanitizer without the final strip("_")
to_public_id_nostrip(s) ==
    CollapseUnderscores(SubNonWordRuns(StripAccents(NFKD(s)), FALSE), FALSE)

to_public_id(s) ==
    LET s1 == NFKD(s)
        s2 == StripAccents(s1)
        s3 == SubNonWordRuns(s2, FALSE)
        s4 == Strip(CollapseUnderscores(s3, FALSE), {"_"})
    IN  s4

\* -------------------------------------------------------- cld_transform_url
UPLOAD_MARKER == <<"/", "u", "p", "l", "o", "a", "d", "/">>

RECURSIVE Replace(_, _, _)
\* str.replace(old, new): every non-overlapping occurrence, left to right
Replace(s, old, new) ==
    IF Len(s) < Len(old) THEN s
    ELSE IF SubSeq(s, 1, Len(old)) = old
         THEN new \o Replace(SubSeq(s, Len(old) + 1, Len(s)), old, new)
         ELSE <<Head(s)>> \o Replace(Tail(s), old, new)

cld_transform_url(secure_url, transform) ==
    Replace(secure_url, UPLOAD_MARKER, UPLOAD_MARKER \o transform \o <<"/">>)

\* ------------------------------------------------------------ cld_signature
\* Python values a parameter map can hold
PyNone == [t |-> "None"]
PyStr(s) == [t |-> "str", s |-> s]
PyBool(b) == [t |-> "bool", b |-> b]
PyInt(n) == [t |-> "int", n |-> n]

IsNumber(v) == v.t \in {"bool", "int"}
NumberOf(v) == IF v.t = "bool" THEN (IF v.b THEN 1 ELSE 0) ELSE v.n

\* Python's ==: bool is a subclass of int, so False == 0 and True == 1
PyEq(v, w) ==
    IF IsNumber(v) /\ IsNumber(w) THEN NumberOf(v) = NumberOf(w)
    ELSE IF v.t = "str" /\ w.t = "str" THEN v.s = w.s
    ELSE v.t = "None" /\ w.t = "None"

\* x in (a, b, c): some member equals x
PyIn(v, tuple) == \E i \in 1..Len(tuple) : PyEq(v, tuple[i])

DigitChar(d) == <<"0", "1", "2", "3", "4", "5", "6", "7", "8", "9">>[d + 1]

RECURSIVE IntStr(_)
IntStr(n) == IF n < 10 THEN <<DigitChar(n)>> ELSE IntStr(n \div 10) \o <<DigitChar(n % 10)>>

\* f"{v}"
Format(v) ==
    CASE v.t = "str" -> v.s
      [] v.t = "bool" -> IF v.b THEN <<"T", "r", "u", "e">> ELSE <<"F", "a", "l", "s", "e">>
      [] v.t = "int" -> IntStr(v.n)
      [] v.t = "None" -> <<"N", "o", "n", "e">>

\* ord() of the characters parameter names are made of
Ord(c) == IF c = "a" THEN 97 ELSE 98

RECURSIVE StrLess(_, _)
\* s < t on str: lexicographic by code point
StrLess(s, t) ==
    IF t = << >> THEN FALSE
    ELSE IF s = << >> THEN TRUE
    ELSE IF Head(s) = Head(t) THEN StrLess(Tail(s), Tail(t))
    ELSE Ord(Head(s)) < Ord(Head(t))

RECURSIVE Sorted(_)
\* sorted(.) of a set of str
Sorted(S) ==
    IF S = {} THEN << >>
    ELSE LET m == CHOOSE x \in S : \A y \in S \ {x} : StrLess(x, y)
         IN  <<m>> \o Sorted(S \ {m})

\* a dict is the sequence of its items in insertion order, keys distinct
Keys(params) == {params[i].k : i \in 1..Len(params)}
Get(params, k) == (CHOOSE i \in 1..Len(params) : params[i].k = k)
Value(params, k) == params[Get(params, k)].v

RECURSIVE Join(_, _)
\* sep.join(parts)
Join(sep, parts) ==
    IF parts = << >> THEN << >>
    ELSE IF Len(parts) = 1 THEN parts[1]
    ELSE parts[1] \o sep \o Join(sep, Tail(parts))

\* the generator of lines 41-43: key=value for the names of order not in dropped
SignParts(params, order, dropped) ==
    LET kept == SelectSeq(order, LAMBDA k : k \notin dropped)
    IN  [i \in 1..Len(kept) |-> kept[i] \o <<"=">> \o Format(Value(params, kept[i]))]

NotSigned(v) == PyIn(v, <<PyNone, PyStr(<< >>), PyBool(FALSE)>>)

\* to_sign of cld_signature
cld_to_sign(params, api_secret) ==
    Join(<<"&">>, SignParts(params, Sorted(Keys(params)),
                            {k \in Keys(params) : NotSigned(Value(params, k))}))
    \o api_secret

\* hashlib.sha1(.).hexdigest(), idealised: the digest names its preimage
sha1_hexdigest(bytes) == [sha1_of |-> bytes]

cld_signature(params, api_secret) == sha1_hexdigest(cld_to_sign(params, api_secret))

\* ------------------------------------------------------------------ cell_str
\* an Excel cell: NaN (an empty cell) or a text
NaN == [nan |-> TRUE, text |-> << >>]
Text(s) == [nan |-> FALSE, text |-> s]
Whitespace == {" "}

cell_str(val) == IF val.nan THEN << >> ELSE Strip(val.text, Whitespace)

\* ---------------------------------------------------------------- idle parts
Blank == << >>
NoFile == [written |-> FALSE, columns |-> << >>, rows |-> << >>]
NoMessage == [kind |-> "none", attempted |-> 0, processed |-> 0]

MainIdle ==
    /\ cloud_name = Blank /\ cloud_api_key = Blank /\ cloud_api_secret = Blank
    /\ pc = "idle"
    /\ df = [columns |-> << >>, rows |-> << >>]
    /\ source_cols = << >> /\ out_rows = << >>
    /\ attempted = 0 /\ processed = 0 /\ idx = 0
    /\ sku = Blank /\ img_url = Blank /\ public_id = Blank /\ referer = Blank
    /\ sleeps = 0 /\ fetchLog = << >> /\ uploadLog = << >>
    /\ visited = << >> /\ outcome = << >> /\ outIdx = << >>
    /\ errors = << >> /\ dest = NoFile /\ console = NoMessage

FnIdle == call = [fn |-> "none"] /\ ret = << >> /\ returned = FALSE

\* ------------------------------------------- specification of to_public_id
SanInit ==
    /\ MainIdle
    /\ call \in {[fn |-> "to_public_id", s |-> s] : s \in SeqsUpTo(SanChars, MaxLen)}
    /\ ret = << >> /\ returned = FALSE

CallToPublicId ==
    /\ call.fn = "to_public_id" /\ ~returned
    /\ ret' = to_public_id(call.s)
    /\ returned' = TRUE
    /\ UNCHANGED <<call, mainVars>>

SanNext == CallToPublicId
SanSpec == SanInit /\ [][SanNext]_vars

\* --------------------------------------- specification of cld_transform_url
UrlPieces == {UPLOAD_MARKER, <<"a">>, <<"/">>, <<"u", "p", "l", "o", "a", "d", "/">>}
Urls == {Concat(ps) : ps \in SeqsUpTo(UrlPieces, MaxPieces)}
Transforms == {<<"t">>, <<"x">> \o UPLOAD_MARKER \o <<"y">>}

UrlInit ==
    /\ MainIdle
    /\ call \in {[fn |-> "cld_transform_url", secure_url |-> u, transform |-> t] :
                    u \in Urls, t \in Transforms}
    /\ ret = << >> /\ returned = FALSE

CallCldTransformUrl ==
    /\ call.fn = "cld_transform_url" /\ ~returned
    /\ ret' = cld_transform_url(call.secure_url, call.transform)
    /\ returned' = TRUE
    /\ UNCHANGED <<call, mainVars>>

UrlNext == CallCldTransformUrl
UrlSpec == UrlInit /\ [][UrlNext]_vars

\* ------------------------------------------- specification of cld_signature
SigKeys == {<<"a">>, <<"a", "b">>, <<"b">>}
SigValues == {PyNone, PyStr(<< >>), PyStr(<<"x">>), PyBool(FALSE), PyBool(TRUE),
              PyInt(0), PyInt(1)}
Secrets == {<<"s">>}

\* dicts of at most MaxParams items, in every insertion order
ParamMaps ==
    {p \in SeqsUpTo([k : SigKeys, v : SigValues], MaxParams) :
        \A i, j \in 1..Len(p) : i # j => p[i].k # p[j].k}

SigInit ==
    /\ MainIdle
    /\ call \in {[fn |-> "cld_signature", params |-> p, api_secret |-> s] :
                    p \in ParamMaps, s \in Secrets}
    /\ ret = << >> /\ returned = FALSE

CallCldSignature ==
    /\ call.fn = "cld_signature" /\ ~returned
    /\ ret' = cld_signature(call.params, call.api_secret)
    /\ returned' = TRUE
    /\ UNCHANGED <<call, mainVars>>

SigNext == CallCldSignature
SigSpec == SigInit /\ [][SigNext]_vars

\* ===================================================================== main
\* os.getenv: None when the variable is unset, else its text
EnvValues == {PyNone, PyStr(<< >>), PyStr(<<"k">>)}
Truthy(v) == v.t = "str" /\ v.s # << >>

\* ---- the tables pd.read_excel can return
ColumnLists ==
    {<<"Name">>, <<"SKU">>, <<"Image">>, <<"SKU", "Image">>, <<"Image", "SKU">>,
     <<"SKU", "Image", "Image Alt Text">>,
     <<"Variant SKU", "SKU", "Image">>,
     <<"SKU", "Image Src", "Image">>}
\* a cell of a required column is empty, blank or padded text; an alt text is
\* empty or padded text; a cell of any other column is some padded text
CellValues(col) ==
    IF col \in {"SKU", "Image"} THEN {NaN, Text(<<" ">>), Text(<<" ", "a">>)}
    ELSE IF col = "Image Alt Text" THEN {NaN, Text(<<" ", "a">>)}
    ELSE {Text(<<"b", " ">>)}
RowsOf(cols) ==
    {row \in [Range(cols) -> UNION {CellValues(c) : c \in Range(cols)}] :
        \A c \in Range(cols) : row[c] \in CellValues(c)}

\* row.get(col): None, which pd.isna takes for missing, when there is no such column
RowGet(row, col) == IF col \in DOMAIN row THEN row[col] ELSE NaN

\* ---- what the two HTTP calls can answer
TimedOut == [raised |-> TRUE]
FetchOutcomes ==
    {TimedOut} \cup {[raised |-> FALSE, status_code |-> c] : c \in {200, 404}}
SecureUrls == {<<"h">> \o UPLOAD_MARKER \o <<"a">>, <<"h", "/", "a">>}
\* a response body: not JSON, a JSON object without secure_url, or one with it
NotJson == [json |-> FALSE]
Bodies ==
    {NotJson, [json |-> TRUE, has_url |-> FALSE]}
    \cup {[json |-> TRUE, has_url |-> TRUE, secure_url |-> u] : u \in SecureUrls}
UploadOutcomes ==
    {TimedOut, [raised |-> FALSE, status_code |-> 500, body |-> NotJson]}
    \cup {[raised |-> FALSE, status_code |-> c, body |-> b] : c \in {200, 201}, b \in Bodies}

\* line 61: the GET did not raise and answered 200
FetchOK(r) == ~r.raised /\ r.status_code = 200

\* the POST answered 200 only
UploadStatusOK_only200(r) == r.status_code = 200
\* line 90
UploadStatusOK(r) == r.status_code \in {200, 201}

\* lines 89-94: the POST did not raise, its status is accepted, and up.json()
\* parses the body
UploadOK(r) == ~r.raised /\ UploadStatusOK(r) /\ r.body.json

\* line 94: data.get("secure_url", "")
SecureUrlOf(r) == IF r.body.has_url THEN r.body.secure_url ELSE << >>

\* the exception leaves main
AfterRowError_propagates == "done"
\* lines 161-164: except Exception prints, finally sleeps, the loop goes on
AfterRowError == "sleep"

\* only SKU is required
RequiredCols_skuOnly == <<"SKU">>
RequiredCols == <<"SKU", "Image">>

EXTRA_COLS == <<"Variant SKU", "Image Src">>

\* the extra columns are appended without looking
AllCols_always(cols) == cols \o EXTRA_COLS
\* lines 169-173
AllCols(cols) ==
    cols \o SelectSeq(EXTRA_COLS, LAMBDA c : c \notin Range(cols))

\* lines 152-156: the dict of the output row
OutRow(row, cols, s, final_url) ==
    [c \in Range(cols) \cup Range(EXTRA_COLS) |->
        IF c = "Image Src" THEN final_url
        ELSE IF c = "Variant SKU" THEN s
        ELSE cell_str(RowGet(row, c))]

\* the file is written whatever out_rows holds
ShouldWrite_always(rows) == TRUE
\* line 167
ShouldWrite(rows) == rows # << >>

\* the counts are printed whether or not a file was written
ClosingMessage_always(rows, att, proc) ==
    [kind |-> "summary", attempted |-> att, processed |-> proc]
\* lines 179-182
ClosingMessage(rows, att, proc) ==
    IF ShouldWrite(rows)
    THEN [kind |-> "summary", attempted |-> att, processed |-> proc]
    ELSE [kind |-> "nothing", attempted |-> 0, processed |-> 0]

\* lines 175-178: the sheet, one tuple per row in the order of all_cols
Sheet(rows, all_cols) ==
    [written |-> TRUE, columns |-> all_cols,
     rows |-> [k \in 1..Len(rows) |-> [j \in 1..Len(all_cols) |-> rows[k][all_cols[j]]]]]

\* lines 138-144
PublicIdOf(row, cols, s) ==
    LET alt_text == IF "Image Alt Text" \in Range(cols)
                    THEN cell_str(RowGet(row, "Image Alt Text")) ELSE << >>
        product_name == IF "Product Name" \in Range(cols)
                        THEN cell_str(RowGet(row, "Product Name")) ELSE << >>
        alt_id == to_public_id(alt_text)
        name_id == to_public_id(product_name)
    IN  IF USE_IMAGE_ALT_TEXT_AS_PUBLIC_ID /\ alt_id # << >> THEN alt_id
        ELSE IF name_id # << >> THEN name_id ELSE s

\* line 140
RefererOf(row, cols) ==
    IF "Starting Url" \in Range(cols) THEN cell_str(RowGet(row, "Starting Url")) ELSE << >>

Init ==
    /\ cloud_name \in EnvValues /\ cloud_api_key \in EnvValues
    /\ cloud_api_secret \in EnvValues
    /\ pc = "start"
    /\ df = [columns |-> << >>, rows |-> << >>]
    /\ source_cols = << >> /\ out_rows = << >>
    /\ attempted = 0 /\ processed = 0 /\ idx = 0
    /\ sku = Blank /\ img_url = Blank /\ public_id = Blank /\ referer = Blank
    /\ sleeps = 0 /\ fetchLog = << >> /\ uploadLog = << >>
    /\ visited = << >> /\ outcome = << >> /\ outIdx = << >>
    /\ errors = << >> /\ dest = NoFile /\ console = NoMessage
    /\ FnIdle

\* lines 105-107
CheckEnv ==
    /\ pc = "start"
    /\ IF Truthy(cloud_name) /\ Truthy(cloud_api_key) /\ Truthy(cloud_api_secret)
       THEN pc' = "load" /\ UNCHANGED errors
       ELSE pc' = "done" /\ errors' = Append(errors, "env")
    /\ UNCHANGED <<cloud_name, cloud_api_key, cloud_api_secret, df, source_cols,
                   out_rows, attempted, processed, idx, sku, img_url, public_id,
                   referer, sleeps, fetchLog, uploadLog, visited, outcome, outIdx,
                   dest, console, fnVars>>

\* lines 110-114
LoadExcel ==
    /\ pc = "load"
    /\ \/ \E cols \in ColumnLists, n \in 0..MaxRows :
            \E rs \in [1..n -> RowsOf(cols)] :
                df' = [columns |-> cols, rows |-> rs] /\ pc' = "cols" /\ UNCHANGED errors
       \/ pc' = "done" /\ errors' = Append(errors, "read") /\ UNCHANGED df
    /\ UNCHANGED <<cloud_name, cloud_api_key, cloud_api_secret, source_cols,
                   out_rows, attempted, processed, idx, sku, img_url, public_id,
                   referer, sleeps, fetchLog, uploadLog, visited, outcome, outIdx,
                   dest, console, fnVars>>

\* lines 116-124
CheckColumns ==
    /\ pc = "cols"
    /\ LET missing == SelectSeq(RequiredCols, LAMBDA c : c \notin Range(df.columns))
       IN  IF missing # << >>
           THEN /\ pc' = "done"
                /\ errors' = Append(errors, Head(missing))
                /\ UNCHANGED <<source_cols, out_rows, attempted, processed,
                               fetchLog, uploadLog, outcome>>
           ELSE /\ pc' = "loop"
                /\ source_cols' = df.columns
                /\ out_rows' = << >>
                /\ attempted' = 0 /\ processed' = 0
                /\ fetchLog' = [i \in 1..Len(df.rows) |-> << >>]
                /\ uploadLog' = [i \in 1..Len(df.rows) |-> << >>]
                /\ outcome' = [i \in 1..Len(df.rows) |-> "Pending"]
                /\ UNCHANGED errors
    /\ UNCHANGED <<cloud_name, cloud_api_key, cloud_api_secret, df, idx, sku,
                   img_url, public_id, referer, sleeps, visited, outIdx, dest,
                   console, fnVars>>

\* lines 126-146: iterrows() yields the next row; it is validated
RowStart ==
    /\ pc = "loop" /\ idx < Len(df.rows)
    /\ LET i == idx + 1
           row == df.rows[i]
           s == cell_str(RowGet(row, "SKU"))
           u == cell_str(RowGet(row, "Image"))
       IN  /\ idx' = i
           /\ visited' = Append(visited, i)
           /\ sku' = s
           /\ IF s = << >>
              THEN /\ outcome' = [outcome EXCEPT ![i] = "Skipped"]
                   /\ pc' = "loop"
                   /\ UNCHANGED <<img_url, public_id, referer, attempted>>
              ELSE /\ img_url' = u
                   /\ IF u = << >>
                      THEN /\ outcome' = [outcome EXCEPT ![i] = "Skipped"]
                           /\ pc' = "loop"
                           /\ UNCHANGED <<public_id, referer, attempted>>
                      ELSE /\ public_id' = PublicIdOf(row, df.columns, s)
                           /\ referer' = RefererOf(row, df.columns)
                           /\ attempted' = attempted + 1
                           /\ pc' = "fetch"
                           /\ UNCHANGED outcome
    /\ UNCHANGED <<cloud_name, cloud_api_key, cloud_api_secret, df, source_cols,
                   out_rows, processed, sleeps, fetchLog, uploadLog, outIdx,
                   errors, dest, console, fnVars>>

\* lines 53-62 under the try of line 147
Fetch ==
    /\ pc = "fetch"
    /\ \E r \in FetchOutcomes :
        /\ fetchLog' = [fetchLog EXCEPT ![idx] =
                            Append(@, [url |-> img_url, referer |-> referer, resp |-> r])]
        /\ IF FetchOK(r)
           THEN pc' = "upload" /\ UNCHANGED outcome
           ELSE pc' = AfterRowError /\ outcome' = [outcome EXCEPT ![idx] = "Failed"]
    /\ UNCHANGED <<cloud_name, cloud_api_key, cloud_api_secret, df, source_cols,
                   out_rows, attempted, processed, idx, sku, img_url, public_id,
                   referer, sleeps, uploadLog, visited, outIdx, errors, dest,
                   console, fnVars>>

\* lines 64-94 and 149-162
Upload ==
    /\ pc = "upload"
    /\ \E r \in UploadOutcomes :
        /\ uploadLog' = [uploadLog EXCEPT ![idx] =
                            Append(@, [public_id |-> public_id, resp |-> r])]
        /\ IF UploadOK(r)
           THEN LET base_url == SecureUrlOf(r)
                    final_url == cld_transform_url(base_url, CLD_DELIVERY_TRANSFORM)
                    out_row == OutRow(df.rows[idx], source_cols, sku, final_url)
                IN  /\ out_rows' = Append(out_rows, out_row)
                    /\ processed' = processed + 1
                    /\ outIdx' = Append(outIdx, idx)
                    /\ outcome' = [outcome EXCEPT ![idx] = "Succeeded"]
                    /\ pc' = "sleep"
           ELSE /\ pc' = AfterRowError
                /\ outcome' = [outcome EXCEPT ![idx] = "Failed"]
                /\ UNCHANGED <<out_rows, processed, outIdx>>
    /\ UNCHANGED <<cloud_name, cloud_api_key, cloud_api_secret, df, source_cols,
                   attempted, idx, sku, img_url, public_id, referer, sleeps,
                   fetchLog, visited, errors, dest, console, fnVars>>

\* the sleep stands in the try body, after the print of line 160
Sleep_onSuccessOnly ==
    /\ pc = "sleep"
    /\ sleeps' = IF outcome[idx] = "Succeeded" THEN sleeps + 1 ELSE sleeps
    /\ pc' = "loop"
    /\ UNCHANGED <<cloud_name, cloud_api_key, cloud_api_secret, df, source_cols,
                   out_rows, attempted, processed, idx, sku, img_url, public_id,
                   referer, fetchLog, uploadLog, visited, outcome, outIdx,
                   errors, dest, console, fnVars>>

\* lines 163-164: the finally clause of the row's try
Sleep ==
    /\ pc = "sleep"
    /\ sleeps' = sleeps + 1
    /\ pc' = "loop"
    /\ UNCHANGED <<cloud_name, cloud_api_key, cloud_api_secret, df, source_cols,
                   out_rows, attempted, processed, idx, sku, img_url, public_id,
                   referer, fetchLog, uploadLog, visited, outcome, outIdx,
                   errors, dest, console, fnVars>>

\* lines 166-182, once iterrows() is exhausted
WriteOutput ==
    /\ pc = "loop" /\ idx = Len(df.rows)
    /\ dest' = IF ShouldWrite(out_rows) THEN Sheet(out_rows, AllCols(source_cols)) ELSE dest
    /\ console' = ClosingMessage(out_rows, attempted, processed)
    /\ pc' = "done"
    /\ UNCHANGED <<cloud_name, cloud_api_key, cloud_api_secret, df, source_cols,
                   out_rows, attempted, processed, idx, sku, img_url, public_id,
                   referer, sleeps, fetchLog, uploadLog, visited, outcome, outIdx,
                   errors, fnVars>>

Next ==
    \/ CheckEnv
    \/ LoadExcel
    \/ CheckColumns
    \/ RowStart
    \/ Fetch
    \/ Upload
    \/ Sleep
    \/ WriteOutput

Spec == Init /\ [][Next]_vars

\* ======================================================= claims on helpers
HasPrefixAt(s, i, p) == i + Len(p) - 1 <= Len(s) /\ SubSeq(s, i, i + Len(p) - 1) = p
Contains(s, p) == \E i \in 1..Len(s) : HasPrefixAt(s, i, p)
InsertAfter(s, n, x) == SubSeq(s, 1, n) \o x \o SubSeq(s, n + 1, Len(s))

\* C8: cld_transform_url(url, t) on a URL containing /upload/ returns the URL
\* with t/ inserted once, immediately after the /upload/ marker, and nowhere
\* else; on a URL without the marker it returns the URL unchanged.
C8_OneInsertion ==
    (returned /\ call.fn = "cld_transform_url") =>
        LET url == call.secure_url
            seg == call.transform \o <<"/">>
        IN  IF Contains(url, UPLOAD_MARKER)
            THEN \E i \in 1..Len(url) :
                    /\ HasPrefixAt(url, i, UPLOAD_MARKER)
                    /\ ret = InsertAfter(url, i + Len(UPLOAD_MARKER) - 1, seg)
            ELSE ret = url

NoEdgeUnderscore(s) == s = << >> \/ (s[1] # "_" /\ s[Len(s)] # "_")
NoDoubleUnderscore(s) == \A i \in 1..(Len(s) - 1) : ~(s[i] = "_" /\ s[i + 1] = "_")
UnicodeLetters == {"U+0436"}

\* C9 as stated: for every input the output of to_public_id contains only
\* characters of [A-Za-z0-9_-], never starts or ends with _, and has no run
\* of two or more _.
C9_AsciiOnly ==
    (returned /\ call.fn = "to_public_id") =>
        /\ Range(ret) \subseteq AsciiIdChars
        /\ NoEdgeUnderscore(ret)
        /\ NoDoubleUnderscore(ret)

\* C9 amended: the output contains only word characters (ASCII or not) and
\* hyphens, only [A-Za-z0-9_-] when the input is ASCII, never starts or ends
\* with _, has no run of two or more _, and is empty for blank input.
C9_WordCharsOnly ==
    (returned /\ call.fn = "to_public_id") =>
        /\ Range(ret) \subseteq (AsciiIdChars \cup UnicodeLetters)
        /\ Range(call.s) \subseteq AsciiChars => Range(ret) \subseteq AsciiIdChars
        /\ NoEdgeUnderscore(ret)
        /\ NoDoubleUnderscore(ret)
        /\ Range(call.s) \subseteq Whitespace => ret = << >>

\* a non-ASCII letter survives next to a replaced run
C9_Witness ==
    /\ returned /\ call.fn = "to_public_id"
    /\ call.s = <<"U+0436", "!", "a">>
    /\ ret = <<"U+0436", "_", "a">>

\* the filter the specification words: empty, null or boolean false
IsEmptyNullOrFalse(v) == v = PyNone \/ v = PyStr(<< >>) \/ v = PyBool(FALSE)

EnvOK == Truthy(cloud_name) /\ Truthy(cloud_api_key) /\ Truthy(cloud_api_secret)
\* the table loaded and main() is in, or through, the row loop
Loaded == pc \in {"loop", "fetch", "upload", "sleep"} \/ (pc = "done" /\ errors = << >>)
Finished == pc = "done" /\ errors = << >>
NRows == Len(df.rows)
RowSku(i) == cell_str(RowGet(df.rows[i], "SKU"))
RowImage(i) == cell_str(RowGet(df.rows[i], "Image"))
Qualifies(i) == RowSku(i) # << >> /\ RowImage(i) # << >>
\* the loop is through with row i
Settled(i) == i < idx \/ (i = idx /\ pc \in {"loop", "done"})
OutCount(i) == Cardinality({k \in 1..Len(outIdx) : outIdx[k] = i})
Fetched200(i) ==
    /\ Len(fetchLog[i]) = 1
    /\ ~fetchLog[i][1].resp.raised /\ fetchLog[i][1].resp.status_code = 200
Uploaded2xx(i) ==
    /\ Len(uploadLog[i]) = 1
    /\ ~uploadLog[i][1].resp.raised /\ uploadLog[i][1].resp.status_code \in {200, 201}
UploadedJson(i) == Uploaded2xx(i) /\ uploadLog[i][1].resp.body.json
SucceededRows == SelectSeq([i \in 1..NRows |-> i], LAMBDA i : outcome[i] = "Succeeded")
ColIndex(cols, name) == CHOOSE j \in 1..Len(cols) : cols[j] = name
\* C1 as stated: over a run of N rows the number of throttle sleeps is N,
\* one after every row whether it succeeded, failed or was skipped.
C1_SleepAfterEveryRow == Finished => sleeps = NRows

\* C1 amended: the throttle sleep runs exactly once after every row that
\* passed validation (succeeded or failed) and not at all after a skipped
\* row, so a run sleeps as many times as it attempted rows.
C1_SleepAfterAttemptedRow ==
    Loaded =>
        /\ sleeps = Cardinality({i \in 1..idx : Qualifies(i)})
                    - (IF pc \in {"fetch", "upload", "sleep"} THEN 1 ELSE 0)
        /\ Finished => sleeps = attempted
                       /\ sleeps = Cardinality({i \in 1..NRows : Qualifies(i)})

\* a finished run with a skipped row and a failed row slept once
C1_Witness ==
    Finished /\ outcome = <<"Skipped", "Failed">> /\ sleeps = 1

\* C2: once the table is loaded, no per-row outcome stops the run: the rows
\* are visited once each in source order, main() can always take its next
\* step until it is done, and it is done only after the last row and the
\* closing write/summary step.
C2_RowErrorsNeverStopRun ==
    Loaded =>
        /\ visited = [i \in 1..idx |-> i]
        /\ pc # "done" =>
              \/ pc = "loop" /\ idx < NRows      \* all that RowStart asks for
              \/ ENABLED (Fetch \/ Upload \/ Sleep \/ WriteOutput)
        /\ pc = "done" => idx = NRows /\ console.kind # "none"

\* a row whose upload raised is followed by a row that succeeds
C2_Witness ==
    /\ Finished /\ outcome = <<"Failed", "Succeeded">>
    /\ Len(uploadLog[1]) = 1 /\ uploadLog[1][1].resp = TimedOut
    /\ visited = <<1, 2>>

\* what C3 says of every row but for the condition of an OutputRow
C3_RowShape(produces) ==
    Loaded =>
        /\ Finished => idx = NRows
        /\ \A i \in 1..NRows :
            /\ Len(fetchLog[i]) <= 1 /\ Len(uploadLog[i]) <= 1
            /\ ~Qualifies(i) => fetchLog[i] = << >> /\ uploadLog[i] = << >>
            /\ OutCount(i) <= 1
            /\ Settled(i) =>
                /\ outcome[i] \in {"Succeeded", "Failed", "Skipped"}
                /\ OutCount(i) = 1 <=> produces[i]
                /\ outcome[i] = "Succeeded" <=> OutCount(i) = 1
                /\ outcome[i] = "Skipped" <=> ~Qualifies(i)

ProducesAsStated == [i \in 1..NRows |-> Qualifies(i) /\ Fetched200(i) /\ Uploaded2xx(i)]
ProducesAmended == [i \in 1..NRows |-> Qualifies(i) /\ Fetched200(i) /\ UploadedJson(i)]

\* C3 as stated: every row ends Succeeded, Failed or Skipped and yields at
\* most one OutputRow, exactly one when its trimmed SKU and Image are
\* non-empty, the fetch answers 200 and the upload answers 200 or 201; a row
\* with empty SKU or Image issues no request; no request is issued twice.
C3_OneOutputRowPerGoodStatus == C3_RowShape(ProducesAsStated)

\* C3 amended: as stated, with the condition of the OutputRow also requiring
\* that the body of the 200/201 upload response parses as a JSON object.
C3_OneOutputRowPerParsedUpload == C3_RowShape(ProducesAmended)

\* one row succeeds on a 201, another fails on a 200 whose body is not JSON
C3_Witness ==
    /\ Finished /\ outcome = <<"Succeeded", "Failed">>
    /\ uploadLog[1][1].resp.status_code = 201
    /\ Uploaded2xx(2) /\ uploadLog[2][1].resp.body = NotJson

NothingDone ==
    /\ sleeps = 0 /\ visited = << >> /\ idx = 0 /\ attempted = 0
    /\ \A i \in 1..Len(fetchLog) : fetchLog[i] = << >>
    /\ \A i \in 1..Len(uploadLog) : uploadLog[i] = << >>
    /\ out_rows = << >> /\ dest = NoFile /\ console = NoMessage

\* C4: a missing or empty credential, an unreadable source file or an absent
\* SKU or Image column ends main() with one error reported and no fetch, no
\* upload, no sleep and no output file; rows are processed only otherwise.
C4_FatalErrorsAbortBeforeRows ==
    /\ Len(errors) <= 1
    /\ (pc # "start" /\ ~EnvOK) => errors = <<"env">>
    /\ (pc \notin {"start", "load", "cols"} /\ errors = << >>) =>
            EnvOK /\ {"SKU", "Image"} \subseteq Range(df.columns)
    /\ (pc = "done" /\ EnvOK /\ df.columns # << >>
            /\ ~({"SKU", "Image"} \subseteq Range(df.columns))) =>
            errors = <<IF "SKU" \in Range(df.columns) THEN "Image" ELSE "SKU">>
    /\ errors # << >> => pc = "done" /\ NothingDone

\* a table of two rows without the Image column is rejected
C4_Witness ==
    pc = "done" /\ errors = <<"Image">> /\ Len(df.rows) = 2 /\ NothingDone

\* C5: the output file is written, at the end of the run only, if and only if
\* some row produced an OutputRow; it then holds exactly the OutputRows of the
\* succeeded rows, one each, in source order; otherwise no file is written
\* and the "nothing to write" message is printed.
C5_FileIffOutputRows ==
    /\ pc # "done" => dest = NoFile
    /\ Finished =>
        /\ dest.written <=> (\E i \in 1..NRows : outcome[i] = "Succeeded")
        /\ dest.written =>
            /\ outIdx = SucceededRows
            /\ Len(out_rows) = Len(SucceededRows)
            /\ Len(dest.rows) = Len(SucceededRows)
            /\ \A k \in 1..Len(dest.rows) :
                /\ out_rows[k]["Variant SKU"] = RowSku(SucceededRows[k])
                /\ Len(dest.rows[k]) = Len(dest.columns)
                /\ \A j \in 1..Len(dest.columns) :
                      dest.rows[k][j] = out_rows[k][dest.columns[j]]
        /\ ~dest.written => dest = NoFile /\ console.kind = "nothing"

\* both rows succeeded and the file holds them in order
C5_Witness ==
    /\ Finished /\ outcome = <<"Succeeded", "Succeeded">>
    /\ dest.written /\ Len(dest.rows) = 2
    /\ uploadLog[1][1].resp.body # uploadLog[2][1].resp.body

\* C6 as stated: every run that gets past loading ends with a summary that
\* reports the attempted and the processed count, also when no row succeeds.
C6_SummaryAlwaysHasCounts ==
    Finished =>
        /\ console.kind = "summary"
        /\ console.attempted = Cardinality({i \in 1..NRows : Qualifies(i)})
        /\ console.processed = Len(out_rows)

\* C6 amended: attempted counts the rows that passed validation, processed
\* the OutputRows, processed <= attempted <= rows; the closing message
\* reports the two counts if and only if an OutputRow was produced, and is
\* the count-less "nothing to write" message otherwise.
C6_CountsOnlyWithOutput ==
    Loaded =>
        /\ attempted = Cardinality({i \in 1..idx : Qualifies(i)})
        /\ processed = Len(out_rows)
        /\ processed <= attempted /\ attempted <= idx /\ idx <= NRows
        /\ Finished =>
            console = IF processed > 0
                      THEN [kind |-> "summary", attempted |-> attempted,
                            processed |-> processed]
                      ELSE [kind |-> "nothing", attempted |-> 0, processed |-> 0]

\* two rows were attempted, none succeeded, and no count is printed
C6_Witness ==
    Finished /\ attempted = 2 /\ processed = 0 /\ console.kind = "nothing"

\* C7 as stated: a written table's leading columns are the input's columns
\* in order, followed by exactly Variant SKU and Image Src; every original
\* column holds the row's trimmed original value, Variant SKU holds the SKU.
C7_ExactlyTwoNewColumns ==
    dest.written =>
        LET n == Len(df.columns)
        IN  /\ dest.columns = df.columns \o EXTRA_COLS
            /\ \A k \in 1..Len(dest.rows) :
                /\ \A j \in 1..n :
                      dest.rows[k][j] = cell_str(RowGet(df.rows[outIdx[k]], df.columns[j]))
                /\ dest.rows[k][n + 1] = RowSku(outIdx[k])

\* C7 amended: the leading columns are the input's columns in order,
\* followed by those of Variant SKU, Image Src that the input does not have
\* already; every original column not so named holds the trimmed original
\* value; the column Variant SKU holds the SKU.
C7_NewColumnsUnlessPresent ==
    dest.written =>
        LET n == Len(df.columns)
        IN  /\ SubSeq(dest.columns, 1, n) = df.columns
            /\ SubSeq(dest.columns, n + 1, Len(dest.columns))
                  = SelectSeq(EXTRA_COLS, LAMBDA c : c \notin Range(df.columns))
            /\ \A k \in 1..Len(dest.rows) :
                /\ \A j \in 1..n :
                      df.columns[j] \notin Range(EXTRA_COLS) =>
                      dest.rows[k][j] = cell_str(RowGet(df.rows[outIdx[k]], df.columns[j]))
                /\ dest.rows[k][ColIndex(dest.columns, "Variant SKU")] = RowSku(outIdx[k])

\* the input has a Variant SKU column of its own, whose value is replaced
C7_Witness ==
    /\ dest.written
    /\ df.columns = <<"Variant SKU", "SKU", "Image">>
    /\ dest.columns = <<"Variant SKU", "SKU", "Image", "Image Src">>
    /\ df.rows[outIdx[1]]["Variant SKU"] = Text(<<"b", " ">>)
    /\ dest.rows[1][1] = <<"a">>

====
